---------------------------- MODULE Spec2Model ----------------------------
(***************************************************************************)
(* Menu renderer (bot/utils/menu_renderer.py) and the crypto payment       *)
(* callback handler (bot/handlers/user/subscription/payments_crypto.py).   *)
(*                                                                         *)
(* One step of the model is the code that runs between two awaits: the     *)
(* await's answer (success, TelegramBadRequest with a reason, or another   *)
(* exception) is drawn from the chat surface, and the code up to the next  *)
(* await (or the return) is applied to it.                                 *)
(***************************************************************************)
EXTENDS Integers, Sequences, FiniteSets, TLC

VARIABLES call, surf, disk, prev, h, tasks

vars == <<call, surf, disk, prev, h, tasks>>

None == "None"

\* the tasks that render concurrently against one message
Tasks == {"first", "second"}

(***************************************************************************)
(* Inputs of a render request.                                             *)
(***************************************************************************)
Texts == {"text_a", "text_b"}

Markups == {"keyboard"}

MENU_IMAGES == {"menu_subscribe.png"}

\* values of image_filename: None, the empty string, or a name under the root
ImageFilenames == {None, ""} \cup MENU_IMAGES

\* truthiness of an Optional[str]: None and "" are falsy
Truthy(s) == s \notin {None, ""}

(***************************************************************************)
(* Reason strings of a TelegramBadRequest, as sequences of words.          *)
(***************************************************************************)
Reasons ==
    { <<"Bad", "Request:", "Message", "is", "not", "modified">>,
      <<"Bad", "Request:", "caption", "Not", "Modified">>,
      <<"Bad", "Request:", "wrong", "file", "identifier">> }

\* str.lower(), word by word
LowerWord(w) ==
    CASE w = "Bad" -> "bad"
      [] w = "Request:" -> "request:"
      [] w = "Message" -> "message"
      [] w = "Not" -> "not"
      [] w = "Modified" -> "modified"
      [] OTHER -> w

Lower(s) == [i \in 1..Len(s) |-> LowerWord(s[i])]

\* Python's `needle in haystack` on strings: a contiguous occurrence
Contains(haystack, needle) ==
    \E i \in 0..(Len(haystack) - Len(needle)) :
        \A j \in 1..Len(needle) : haystack[i + j] = needle[j]

(***************************************************************************)
(* Answers of the chat surface to one operation.                           *)
(***************************************************************************)
Ok == [kind |-> "ok", reason |-> <<>>]

BadRequest(reason) == [kind |-> "TelegramBadRequest", reason |-> reason]

NetworkError == [kind |-> "TelegramNetworkError", reason |-> <<>>]

Responses == {Ok, NetworkError} \cup {BadRequest(r) : r \in Reasons}

\* isinstance(exception, cls) for the classes named in the except clauses
IsInstance(r, cls) ==
    CASE cls = "TelegramBadRequest" -> r.kind = "TelegramBadRequest"
      [] cls = "Exception" -> r.kind \in {"TelegramBadRequest", "TelegramNetworkError"}
      [] OTHER -> FALSE


(***************************************************************************)
(* One call of the renderer.  photo is message.photo of the Message object *)
(* the call holds; it is a snapshot taken when the interaction arrived.    *)
(***************************************************************************)
IdleCall ==
    [pc |-> "idle", fn |-> None, event |-> None, caller |-> None,
     hasMessage |-> FALSE,
     photo |-> FALSE, text |-> None, image |-> None, markup |-> None,
     ops |-> <<>>, logs |-> <<>>, result |-> FALSE]

Log(c, level, line) ==
    [c EXCEPT !.logs = Append(@, [level |-> level, line |-> line, at |-> c.pc])]

\* `return value`
Return(c, value) == [c EXCEPT !.pc = "done", !.result = value]

\* an exception no except clause of the call catches leaves the call
Raise(c) == [c EXCEPT !.pc = "raised"]

\* the call is suspended at an await of surface operation op
Await(c, op) == [c EXCEPT !.pc = op]

\* image_path.is_file() for MENU_IMAGES_ROOT / image_filename
IsFile(files, image) == image \in files

\* CaptionOrText with the `if message.photo:` block of line 84 left out
CaptionOrText_SkipCaption(c) == Await(c, "edit_text")

\* menu_renderer.py:84: the caption path is chosen on message.photo
CaptionOrText(c) ==
    IF c.photo THEN Await(c, "edit_caption") ELSE Await(c, "edit_text")

\* UpdateEntry taking a missing image file for the end of the image path
UpdateEntry_MissingFileToText(c, files) ==
    IF ~c.hasMessage
    THEN Return(Log(c, "error", 29), FALSE)
    ELSE IF Truthy(c.image)
         THEN IF IsFile(files, c.image)
              THEN Await(c, "edit_media")
              ELSE Await(Log(c, "warning", 80), "edit_text")
         ELSE CaptionOrText(c)

\* update_menu_message, from its entry to its first await (lines 28-45, 79-86)
UpdateEntry(c, files) ==
    IF ~c.hasMessage
    THEN Return(Log(c, "error", 29), FALSE)
    ELSE IF Truthy(c.image)
         THEN IF IsFile(files, c.image)
              THEN Await(c, "edit_media")
              ELSE CaptionOrText(Log(c, "warning", 80))
         ELSE CaptionOrText(c)

\* AfterEditMedia going straight to the text edit after an error that is not
\* a rejection
AfterEditMedia_ErrorToText(c, r) ==
    IF r.kind = "ok"
    THEN Return(c, TRUE)
    ELSE IF IsInstance(r, "TelegramBadRequest")
         THEN IF c.photo
              THEN Await(Log(c, "warning", 48), "edit_caption_fallback")
              ELSE CaptionOrText(Log(c, "warning", 48))
         ELSE IF IsInstance(r, "Exception")
              THEN Await(Log(c, "error", 74), "edit_text")
              ELSE Raise(c)

\* after `await message.edit_media(...)` (lines 45-53, 73-78)
AfterEditMedia(c, r) ==
    IF r.kind = "ok"
    THEN Return(c, TRUE)
    ELSE IF IsInstance(r, "TelegramBadRequest")
         THEN IF c.photo
              THEN Await(Log(c, "warning", 48), "edit_caption_fallback")
              ELSE CaptionOrText(Log(c, "warning", 48))
         ELSE IF IsInstance(r, "Exception")
              THEN CaptionOrText(Log(c, "error", 74))
              ELSE Raise(c)

\* after the `await message.edit_caption(...)` of line 55 (lines 55-72)
AfterEditCaptionFallback(c, r) ==
    IF r.kind = "ok"
    THEN Return(c, TRUE)
    ELSE IF IsInstance(r, "TelegramBadRequest")
         THEN CaptionOrText(Log(c, "warning", 62))
         ELSE IF IsInstance(r, "Exception")
              THEN CaptionOrText(Log(c, "error", 68))
              ELSE Raise(c)

\* AfterEditCaption going on to the text edit after a successful caption edit
AfterEditCaption_NoReturn(c, r) ==
    IF r.kind = "ok"
    THEN Await(c, "edit_text")
    ELSE IF IsInstance(r, "TelegramBadRequest")
         THEN IF Contains(Lower(r.reason), <<"not", "modified">>)
              THEN Await(Log(c, "debug", 94), "edit_text")
              ELSE Await(Log(c, "warning", 98), "edit_text")
         ELSE IF IsInstance(r, "Exception")
              THEN Await(Log(c, "error", 102), "edit_text")
              ELSE Raise(c)

\* after the `await message.edit_caption(...)` of line 86 (lines 86-105)
AfterEditCaption(c, r) ==
    IF r.kind = "ok"
    THEN Return(c, TRUE)
    ELSE IF IsInstance(r, "TelegramBadRequest")
         THEN IF Contains(Lower(r.reason), <<"not", "modified">>)
              THEN Await(Log(c, "debug", 94), "edit_text")
              ELSE Await(Log(c, "warning", 98), "edit_text")
         ELSE IF IsInstance(r, "Exception")
              THEN Await(Log(c, "error", 102), "edit_text")
              ELSE Raise(c)

\* AfterEditText matching the reason without `.lower()`
AfterEditText_CaseSensitive(c, r) ==
    IF r.kind = "ok"
    THEN Return(c, FALSE)
    ELSE IF IsInstance(r, "TelegramBadRequest")
         THEN IF Contains(r.reason, <<"message", "is", "not", "modified">>)
              THEN Return(Log(c, "debug", 116), FALSE)
              ELSE Return(Log(c, "error", 118), FALSE)
         ELSE IF IsInstance(r, "Exception")
              THEN Return(Log(c, "error", 120), FALSE)
              ELSE Raise(c)

\* AfterEditText without the `except Exception` clause of line 119
AfterEditText_NoCatchAll(c, r) ==
    IF r.kind = "ok"
    THEN Return(c, FALSE)
    ELSE IF IsInstance(r, "TelegramBadRequest")
         THEN IF Contains(Lower(r.reason), <<"message", "is", "not", "modified">>)
              THEN Return(Log(c, "debug", 116), FALSE)
              ELSE Return(Log(c, "error", 118), FALSE)
         ELSE Raise(c)

\* after `await message.edit_text(...)` (lines 108-121)
AfterEditText(c, r) ==
    IF r.kind = "ok"
    THEN Return(c, FALSE)
    ELSE IF IsInstance(r, "TelegramBadRequest")
         THEN IF Contains(Lower(r.reason), <<"message", "is", "not", "modified">>)
              THEN Return(Log(c, "debug", 116), FALSE)
              ELSE Return(Log(c, "error", 118), FALSE)
         ELSE IF IsInstance(r, "Exception")
              THEN Return(Log(c, "error", 120), FALSE)
              ELSE Raise(c)

\* send mode of render_menu_content, up to its first await (lines 161-167, 180)
SendEntry(c, files) ==
    IF Truthy(c.image) /\ IsFile(files, c.image)
    THEN Await(c, "send_photo")
    ELSE Await(c, "send_message")

\* render_menu_content, from its entry to its first await (lines 140-165)
\* c.event is "CallbackQuery", "Message" or another object; hasMessage tells
\* whether the target message (event.message, or the event itself) is set
RenderEntry(c, files) ==
    IF c.event \notin {"CallbackQuery", "Message"} \/ ~c.hasMessage
    THEN Return(Log(c, "error", 148), FALSE)
    ELSE IF c.event = "CallbackQuery"
         THEN UpdateEntry(c, files)
         ELSE SendEntry(c, files)

\* AfterSendPhoto trying the photo again after a failure
AfterSendPhoto_Retry(c, r) ==
    IF r.kind = "ok"
    THEN Return(c, TRUE)
    ELSE IF IsInstance(r, "Exception")
         THEN IF Len(c.ops) < 2
              THEN Await(Log(c, "warning", 176), "send_photo")
              ELSE Await(Log(c, "warning", 176), "send_message")
         ELSE Raise(c)

\* after `await target_message.bot.send_photo(...)` (lines 167-178)
AfterSendPhoto(c, r) ==
    IF r.kind = "ok"
    THEN Return(c, TRUE)
    ELSE IF IsInstance(r, "Exception")
         THEN Await(Log(c, "warning", 176), "send_message")
         ELSE Raise(c)

\* image_used of render_menu_content: set at line 161, never assigned again
ImageUsed == FALSE

\* after `await target_message.bot.send_message(...)` (lines 184-193)
AfterSendMessage(c, r) ==
    IF r.kind = "ok"
    THEN Return(c, ImageUsed)
    ELSE IF IsInstance(r, "Exception")
         THEN Return(Log(c, "error", 192), ImageUsed)
         ELSE Raise(c)

\* the surface method an await site calls
OpOf(site) == IF site = "edit_caption_fallback" THEN "edit_caption" ELSE site

\* the call issues the operation it is suspended at, with the arguments
\* the code passes (caption=text / text=text, reply_markup=reply_markup)
Issue(c, r) ==
    [c EXCEPT !.ops = Append(@, [op |-> OpOf(c.pc), site |-> c.pc,
                                 text |-> c.text, markup |-> c.markup,
                                 resp |-> r])]

\* the code that runs when the awaited operation answers r
Resume(c, r) ==
    CASE c.pc = "edit_media" -> AfterEditMedia(Issue(c, r), r)
      [] c.pc = "edit_caption_fallback" -> AfterEditCaptionFallback(Issue(c, r), r)
      [] c.pc = "edit_caption" -> AfterEditCaption(Issue(c, r), r)
      [] c.pc = "edit_text" -> AfterEditText(Issue(c, r), r)
      [] c.pc = "send_photo" -> AfterSendPhoto(Issue(c, r), r)
      [] c.pc = "send_message" -> AfterSendMessage(Issue(c, r), r)
      [] OTHER -> c

(***************************************************************************)
(* The existing message on the chat surface, and what a successful edit    *)
(* does to it.  send_photo and send_message post new messages and leave    *)
(* the existing one alone.                                                 *)
(***************************************************************************)
SurfApply(s, op, text, markup, r) ==
    IF r.kind # "ok" THEN s
    ELSE CASE op = "edit_media" -> [photo |-> TRUE, text |-> text, markup |-> markup]
           [] op = "edit_caption" -> [s EXCEPT !.text = text, !.markup = markup]
           [] op = "edit_text" -> [photo |-> FALSE, text |-> text, markup |-> markup]
           [] OTHER -> s

\* the edit would leave the message as it is
Unchanged(s, op, text, markup) ==
    /\ op \in {"edit_caption", "edit_text"}
    /\ s.text = text
    /\ s.markup = markup

(***************************************************************************)
(* callback.data of the payment handler, as a sequence of characters       *)
(* (digits, "." and ":" one by one; the words of the bounded inputs are    *)
(* kept whole).  The router's filter lets through only data that starts    *)
(* with "pay_crypto:".                                                     *)
(***************************************************************************)
Digits == {"0", "1", "2", "3", "4", "5", "6", "7", "8", "9"}

Payloads ==
    { <<"pay_crypto", ":", "3", ":", "9", ".", "9", "9">>,
      <<"pay_crypto", ":", "1", "0", ":", "5", ":", "traffic">>,
      <<"pay_crypto", ":", "2", ".", "5", ":", "5", ":", "traffic">>,
      <<"pay_crypto", ":", "abc">>,
      <<"pay_crypto", ":", "3">>,
      <<"pay_crypto", ":">>,
      <<"pay_crypto", ":", "3", ":", "abc">>,
      <<"pay_crypto", ":", "1", ".", "2", ".", "3", ":", "5">>,
      <<"pay_crypto", ":", "nan", ":", "5">>,
      <<"pay_crypto", ":", "inf", ":", "5", ":", "traffic">>,
      <<"pay_crypto", ":", "3", ":", "nan", ":", "traffic">> }

\* index of the first ":" of s, or 0
RECURSIVE FirstColon(_, _)
FirstColon(s, i) ==
    IF i > Len(s) THEN 0
    ELSE IF s[i] = ":" THEN i
    ELSE FirstColon(s, i + 1)

\* s.split(":")
RECURSIVE Split(_)
Split(s) ==
    LET k == FirstColon(s, 1)
    IN  IF k = 0 THEN <<s>>
        ELSE <<SubSeq(s, 1, k - 1)>> \o Split(SubSeq(s, k + 1, Len(s)))

\* s.split(":", 1)
SplitOnce(s) ==
    LET k == FirstColon(s, 1)
    IN  IF k = 0 THEN <<s>>
        ELSE <<SubSeq(s, 1, k - 1), SubSeq(s, k + 1, Len(s))>>

DigitValue(d) ==
    CASE d = "0" -> 0 [] d = "1" -> 1 [] d = "2" -> 2 [] d = "3" -> 3
      [] d = "4" -> 4 [] d = "5" -> 5 [] d = "6" -> 6 [] d = "7" -> 7
      [] d = "8" -> 8 [] d = "9" -> 9

RECURSIVE Decimal(_)
Decimal(ds) ==
    IF ds = <<>> THEN 0
    ELSE Decimal(SubSeq(ds, 1, Len(ds) - 1)) * 10 + DigitValue(ds[Len(ds)])

\* the first two decimal places of a fraction, in hundredths
Hundredths(ds) ==
    CASE Len(ds) = 0 -> 0
      [] Len(ds) = 1 -> DigitValue(ds[1]) * 10
      [] OTHER -> DigitValue(ds[1]) * 10 + DigitValue(ds[2])

\* float(field): a finite number (kept in hundredths), nan, inf, or ValueError
Float(field) ==
    LET dots == {i \in 1..Len(field) : field[i] = "."}
        dot == IF dots = {} THEN Len(field) + 1 ELSE CHOOSE i \in dots : TRUE
        whole == SubSeq(field, 1, dot - 1)
        frac == SubSeq(field, dot + 1, Len(field))
    IN  IF field = <<"nan">> THEN [exc |-> None, kind |-> "nan", val |-> 0]
        ELSE IF field = <<"inf">> THEN [exc |-> None, kind |-> "inf", val |-> 0]
        ELSE IF /\ \A i \in 1..Len(field) : field[i] \in Digits \cup {"."}
                /\ Cardinality(dots) <= 1
                /\ \E i \in 1..Len(field) : field[i] \in Digits
        THEN [exc |-> None, kind |-> "finite",
              val |-> Decimal(whole) * 100 + Hundredths(frac)]
        ELSE [exc |-> "ValueError", kind |-> "none", val |-> 0]

\* int(x) of a float: truncation, ValueError for nan, OverflowError for inf
IntOf(x) ==
    CASE x.kind = "finite" -> [exc |-> None, val |-> x.val \div 100]
      [] x.kind = "nan" -> [exc |-> "ValueError", val |-> 0]
      [] OTHER -> [exc |-> "OverflowError", val |-> 0]

\* lines 42-46 of the handler: the exception the block raises (or None) and
\* the values it binds
ParsePayload(data) ==
    LET data_payload == SplitOnce(data)[2]
        parts == Split(data_payload)
        months == Float(parts[1])
        price == IF Len(parts) >= 2 THEN Float(parts[2]) ELSE Float(<<>>)
        bad == [exc |-> None, months |-> months, price_amount |-> months,
                sale_mode |-> <<>>]
    IN  IF months.exc # None THEN [bad EXCEPT !.exc = "ValueError"]
        ELSE IF Len(parts) < 2 THEN [bad EXCEPT !.exc = "IndexError"]
        ELSE IF price.exc # None THEN [bad EXCEPT !.exc = "ValueError"]
        ELSE [exc |-> None, months |-> months, price_amount |-> price,
              sale_mode |-> IF Len(parts) > 2 THEN parts[3] ELSE <<"subscription">>]

(***************************************************************************)
(* pay_crypto_callback_handler.  ext is the sequence of external           *)
(* operations the handler has caused so far (gateway, surface, answer).    *)
(***************************************************************************)
NotParsed ==
    [exc |-> None, months |-> Float(<<>>), price_amount |-> Float(<<>>),
     sale_mode |-> <<>>]

IdleHandler ==
    [pc |-> "idle", i18n |-> FALSE, hasMessage |-> FALSE, service |-> None,
     data |-> <<>>, parsed |-> NotParsed, alert |-> None, ext |-> <<>>]

\* res is how the operation ended: "ok", the class of the exception, or the
\* value it returned
Ext(hd, op, arg, res) ==
    [hd EXCEPT !.ext = Append(@, [op |-> op, arg |-> arg, markup |-> None,
                                  res |-> res])]

\* a render operation, with the text and the controls handed to it
ExtRender(hd, op, text, markup, res) ==
    [hd EXCEPT !.ext = Append(@, [op |-> op, arg |-> text, markup |-> markup,
                                  res |-> res])]

\* `await callback.answer(get_text(alert), show_alert=True)` comes next
\* (alert None: `await callback.answer()`)
AnswerWith(hd, alert) == [hd EXCEPT !.pc = "answer", !.alert = alert]

\* an exception leaves the handler
HandlerRaise(hd) == [hd EXCEPT !.pc = "raised"]

\* after `await callback.answer(...)` in its try block: `except Exception:
\* pass` swallows what it raises, and the handler returns (lines 28-32,
\* 35-39, 48-52, 109-113, 115-118)
AfterAnswer(hd, r) ==
    IF r.kind = "ok" \/ IsInstance(r, "Exception")
    THEN [hd EXCEPT !.pc = "done"]
    ELSE HandlerRaise(hd)

\* lines 54-64: the description is built, then create_invoice is awaited
BeforeInvoice(hd) ==
    IF hd.parsed.sale_mode # <<"traffic">> /\ IntOf(hd.parsed.months).exc # None
    THEN HandlerRaise(hd)
    ELSE [hd EXCEPT !.pc = "create_invoice"]

\* HandlerEntry testing only that the gateway client is there, not its flag
HandlerEntry_IgnoresConfigured(hd) ==
    IF ~hd.i18n \/ ~hd.hasMessage
    THEN AnswerWith(hd, "error_occurred_try_again")
    ELSE IF hd.service = None
         THEN AnswerWith(hd, "payment_service_unavailable_alert")
         ELSE LET p == ParsePayload(hd.data)
              IN  IF p.exc \in {"ValueError", "IndexError"}
                  THEN AnswerWith(hd, "error_try_again")
                  ELSE BeforeInvoice([hd EXCEPT !.parsed = p])

\* lines 23-52: from the entry of the handler to its first await
HandlerEntry(hd) ==
    IF ~hd.i18n \/ ~hd.hasMessage
    THEN AnswerWith(hd, "error_occurred_try_again")
    ELSE IF hd.service # "configured"
         THEN AnswerWith(hd, "payment_service_unavailable_alert")
         ELSE LET p == ParsePayload(hd.data)
              IN  IF p.exc \in {"ValueError", "IndexError"}
                  THEN AnswerWith(hd, "error_try_again")
                  ELSE BeforeInvoice([hd EXCEPT !.parsed = p])

\* AfterCreateInvoice without the `if invoice_url:` test of line 73
AfterCreateInvoice_NoUrlTest(hd, res) ==
    IF res = "raise" THEN HandlerRaise(hd)
    ELSE IF IntOf(hd.parsed.months).exc # None
         THEN HandlerRaise(hd)
         ELSE [hd EXCEPT !.pc = "render_subscribe_menu"]

\* lines 64-80, 115-116: after `await cryptopay_service.create_invoice(...)`;
\* res is the value returned (a URL, None or the empty string), or "raise"
\* when the gateway client raises
AfterCreateInvoice(hd, res) ==
    IF res = "raise" THEN HandlerRaise(hd)
    ELSE IF Truthy(res)
         THEN IF IntOf(hd.parsed.months).exc # None
              THEN HandlerRaise(hd)
              ELSE [hd EXCEPT !.pc = "render_subscribe_menu"]
         ELSE AnswerWith(hd, "error_payment_gateway")

\* the text and controls the handler renders (lines 74-91)
PaymentText(hd) ==
    IF hd.parsed.sale_mode = <<"traffic">>
    THEN "payment_link_message_traffic"
    ELSE "payment_link_message"

\* line 55: str(int(months)) when months is a whole number, else f"{months:g}"
\* (at most two decimals here, trailing zeros dropped)
HumanValue(x) ==
    CASE x.kind = "nan" -> "nan"
      [] x.kind = "inf" -> "inf"
      [] x.val % 100 = 0 -> ToString(x.val \div 100)
      [] x.val % 10 = 0 ->
            ToString(x.val \div 100) \o "." \o ToString((x.val % 100) \div 10)
      [] OTHER ->
            ToString(x.val \div 100) \o "." \o ToString((x.val % 100) \div 10)
                \o ToString(x.val % 10)

\* get_payment_url_keyboard(invoice_url, current_lang, i18n, back_callback=...,
\* back_text_key=...): the "open payment link" control and the "back" control
GetPaymentUrlKeyboard(back_callback, back_text_key) ==
    "pay_url|" \o back_callback \o "|" \o back_text_key

\* lines 85-91: the controls handed to render_subscribe_menu
PaymentKeyboard(hd) ==
    GetPaymentUrlKeyboard("subscribe_period:" \o HumanValue(hd.parsed.months),
                          "back_to_payment_methods_button")

\* lines 99-105: the controls handed to _send_menu_with_image
FallbackKeyboard(hd) ==
    GetPaymentUrlKeyboard("subscribe_period:" \o HumanValue(hd.parsed.months),
                          "back_to_payment_methods_button")

\* AfterRenderSubscribeMenu running the fallback whatever the render did
AfterRenderSubscribeMenu_AlwaysFallback(hd, outcome) ==
    [hd EXCEPT !.pc = "send_menu_with_image"]

\* lines 81-94, 109-110: render_subscribe_menu has returned or raised;
\* `except Exception:` leads to the fallback, a normal return (of any
\* value, the handler does not read it) to `await callback.answer()`
AfterRenderSubscribeMenu(hd, outcome) ==
    IF outcome = "raise"
    THEN [hd EXCEPT !.pc = "send_menu_with_image"]
    ELSE AnswerWith(hd, None)

\* AfterSendMenuWithImage reporting a failed fallback to the user
AfterSendMenuWithImage_AlertOnRaise(hd, outcome) ==
    IF outcome = "raise"
    THEN AnswerWith(hd, "error_payment_gateway")
    ELSE AnswerWith(hd, None)

\* lines 94-110: _send_menu_with_image has returned or raised; `except
\* Exception: pass` swallows what it raises, `await callback.answer()` is next
AfterSendMenuWithImage(hd, outcome) == AnswerWith(hd, None)

\* _menu_image_if_exists(name): the name when the file is there, else None
MenuImageIfExists(files, name) == IF IsFile(files, name) THEN name ELSE None

NewCall(fn, event, caller, hasMessage, photo, text, image, markup) ==
    [IdleCall EXCEPT !.fn = fn, !.event = event, !.caller = caller,
                     !.hasMessage = hasMessage,
                     !.photo = photo, !.text = text, !.image = image,
                     !.markup = markup]

\* what the surface's answer r tells, with whether the edit changed anything
Observed(s, c, r) ==
    [kind |-> r.kind, reason |-> r.reason,
     same |-> Unchanged(s, OpOf(c.pc), c.text, c.markup),
     photo |-> s.photo]

NoPrev ==
    [valid |-> FALSE, text |-> None, image |-> None, markup |-> None,
     result |-> FALSE, path |-> None]

\* the surface operation that succeeded in a finished call, or None
PathOf(c) ==
    IF c.ops # <<>> /\ c.ops[Len(c.ops)].resp.kind = "ok"
    THEN c.ops[Len(c.ops)].op
    ELSE None

\* update mode edits the existing message, send mode posts a new one
Mode(c) ==
    CASE c.fn \in {"update_menu_message", "render_subscribe_menu"} -> "update"
      [] c.fn = "_send_menu_with_image" -> "send"
      [] c.fn = "render_menu_content" /\ c.event = "CallbackQuery" -> "update"
      [] c.fn = "render_menu_content" /\ c.event = "Message" -> "send"
      [] OTHER -> "none"

\* what the caller keeps of a finished update-mode call against the message
Summary(c) ==
    IF Mode(c) = "update" /\ c.hasMessage /\ c.pc = "done"
    THEN [valid |-> TRUE, text |-> c.text, image |-> c.image,
          markup |-> c.markup, result |-> c.result, path |-> PathOf(c)]
    ELSE NoPrev

\* the entry code of the function the call was made to
Enter(c, files) ==
    CASE c.fn \in {"update_menu_message", "render_subscribe_menu"} -> UpdateEntry(c, files)
      [] c.fn = "_send_menu_with_image" -> SendEntry(c, files)
      [] OTHER -> RenderEntry(c, files)

\* the call c run against the answers resps, one per operation it issues
RECURSIVE Replay(_, _)
Replay(c, resps) ==
    IF resps = <<>> \/ c.pc \in {"done", "raised"}
    THEN c
    ELSE Replay(Resume(c, Head(resps)), Tail(resps))

(***************************************************************************)
(* Actions                                                                 *)
(***************************************************************************)
Init ==
    /\ call = IdleCall
    /\ tasks = [t \in Tasks |-> IdleCall]
    /\ h = IdleHandler
    /\ prev = NoPrev
    /\ disk \in SUBSET MENU_IMAGES
    /\ surf \in [photo : BOOLEAN, text : Texts, markup : Markups]

Idle == call.pc = "idle" /\ h.pc = "idle"

\* a file of the image root is added or removed between calls
ImageStoreChange ==
    /\ Idle
    /\ \E files \in SUBSET MENU_IMAGES : files # disk /\ disk' = files
    /\ UNCHANGED <<call, surf, prev, h, tasks>>

\* a caller calls update_menu_message(message, text, image_filename, reply_markup)
CallUpdateMenuMessage ==
    /\ Idle
    /\ \E hasMessage \in BOOLEAN, text \in Texts, image \in ImageFilenames,
          markup \in Markups :
          call' = UpdateEntry(NewCall("update_menu_message", None, "direct",
                                      hasMessage, surf.photo, text, image, markup),
                              disk)
    /\ UNCHANGED <<surf, disk, prev, h, tasks>>

\* whether the event gives a target message (lines 140-145): a callback
\* query may have lost its message, a message is its own target, any other
\* object gives none
TargetOf(event) ==
    CASE event = "CallbackQuery" -> BOOLEAN
      [] event = "Message" -> {TRUE}
      [] OTHER -> {FALSE}

\* a caller calls render_menu_content(event, text, image_filename, reply_markup)
CallRenderMenuContent ==
    /\ Idle
    /\ \E event \in {"CallbackQuery", "Message", "object"},
          text \in Texts, image \in ImageFilenames, markup \in Markups :
       \E hasMessage \in TargetOf(event) :
          call' = RenderEntry(NewCall("render_menu_content", event, "direct",
                                      hasMessage, surf.photo, text, image, markup),
                              disk)
    /\ UNCHANGED <<surf, disk, prev, h, tasks>>

\* the awaited surface operation of the running call answers
SurfaceOp(site) ==
    /\ call.pc = site
    /\ \E r \in Responses :
          /\ call' = Resume(call, Observed(surf, call, r))
          /\ surf' = SurfApply(surf, OpOf(site), call.text, call.markup, r)
          /\ h' = IF call.caller = "handler"
                  THEN ExtRender(h, OpOf(site), call.text, call.markup, r.kind)
                  ELSE h
    /\ UNCHANGED <<disk, prev, tasks>>

EditMedia == SurfaceOp("edit_media")

EditCaptionFallback == SurfaceOp("edit_caption_fallback")

EditCaption == SurfaceOp("edit_caption")

EditText == SurfaceOp("edit_text")

SendPhoto == SurfaceOp("send_photo")

SendMessage == SurfaceOp("send_message")

\* the call has returned (or raised) to a direct caller
ReturnToCaller ==
    /\ call.pc \in {"done", "raised"}
    /\ call.caller = "direct"
    /\ prev' = Summary(call)
    /\ call' = IdleCall
    /\ UNCHANGED <<surf, disk, h, tasks>>

\* the dispatcher runs pay_crypto_callback_handler on a callback query
PayCryptoCallback ==
    /\ Idle
    /\ \E i18n \in BOOLEAN, hasMessage \in BOOLEAN,
          service \in {None, "unconfigured", "configured"}, data \in Payloads :
          h' = HandlerEntry([IdleHandler EXCEPT !.i18n = i18n,
                                                !.hasMessage = hasMessage,
                                                !.service = service,
                                                !.data = data])
    /\ prev' = NoPrev
    /\ UNCHANGED <<call, surf, disk, tasks>>

\* create_invoice answers: a URL, no URL, or the gateway client raises
CreateInvoice ==
    /\ h.pc = "create_invoice"
    /\ \E res \in {"url", None, "", "raise"} :
          h' = AfterCreateInvoice(Ext(h, "create_invoice", h.parsed.sale_mode, res),
                                  res)
    /\ UNCHANGED <<call, surf, disk, prev, tasks>>

\* how a wrapper of the renderer can end once the call it made has ended
Outcomes(c) == IF c.pc = "raised" THEN {"raise"} ELSE {"return", "raise"}

\* what the handler's journal keeps of it: "raise", or the value returned
Ended(c, outcome) ==
    CASE outcome = "raise" -> "raise"
      [] c.result -> "True"
      [] OTHER -> "False"

\* render_subscribe_menu(callback.message, payment_text, reply_markup=...):
\* it renders in update mode against the interaction's message, or raises
\* before it does
RenderSubscribeMenu ==
    /\ h.pc = "render_subscribe_menu"
    /\ \/ /\ h' = AfterRenderSubscribeMenu(
                      ExtRender(ExtRender(h, "render_subscribe_menu", PaymentText(h),
                                          PaymentKeyboard(h), "call"),
                                "render_subscribe_menu", PaymentText(h),
                                PaymentKeyboard(h), "raise"),
                      "raise")
          /\ UNCHANGED call
       \/ /\ h' = [ExtRender(h, "render_subscribe_menu", PaymentText(h),
                             PaymentKeyboard(h), "call")
                     EXCEPT !.pc = "in_render_subscribe_menu"]
          /\ call' = UpdateEntry(NewCall("render_subscribe_menu", None, "handler", TRUE,
                                         surf.photo, PaymentText(h),
                                         MenuImageIfExists(disk, "menu_subscribe.png"),
                                         PaymentKeyboard(h)), disk)
    /\ UNCHANGED <<surf, disk, prev, tasks>>

\* the update-mode render has ended: render_subscribe_menu returns to the
\* handler, or raises
RenderSubscribeMenuReturn ==
    /\ h.pc = "in_render_subscribe_menu"
    /\ call.pc \in {"done", "raised"}
    /\ \E outcome \in Outcomes(call) :
          h' = AfterRenderSubscribeMenu(
                   ExtRender(h, "render_subscribe_menu", call.text, call.markup,
                             Ended(call, outcome)),
                   outcome)
    /\ call' = IdleCall
    /\ UNCHANGED <<surf, disk, prev, tasks>>

\* _send_menu_with_image(callback.message, payment_text, image, reply_markup=...):
\* it renders in send mode, or raises before it does
SendMenuWithImage ==
    /\ h.pc = "send_menu_with_image"
    /\ \/ /\ h' = AfterSendMenuWithImage(
                      ExtRender(ExtRender(h, "_send_menu_with_image", PaymentText(h),
                                          FallbackKeyboard(h), "call"),
                                "_send_menu_with_image", PaymentText(h),
                                FallbackKeyboard(h), "raise"),
                      "raise")
          /\ UNCHANGED call
       \/ /\ h' = [ExtRender(h, "_send_menu_with_image", PaymentText(h),
                             FallbackKeyboard(h), "call")
                     EXCEPT !.pc = "in_send_menu_with_image"]
          /\ call' = SendEntry(NewCall("_send_menu_with_image", None, "handler", TRUE,
                                       surf.photo, PaymentText(h),
                                       MenuImageIfExists(disk, "menu_subscribe.png"),
                                       FallbackKeyboard(h)), disk)
    /\ UNCHANGED <<surf, disk, prev, tasks>>

\* the send-mode render has ended: _send_menu_with_image returns to the
\* handler, or raises
SendMenuWithImageReturn ==
    /\ h.pc = "in_send_menu_with_image"
    /\ call.pc \in {"done", "raised"}
    /\ \E outcome \in Outcomes(call) :
          h' = AfterSendMenuWithImage(
                   ExtRender(h, "_send_menu_with_image", call.text, call.markup,
                             Ended(call, outcome)),
                   outcome)
    /\ call' = IdleCall
    /\ UNCHANGED <<surf, disk, prev, tasks>>

\* `await callback.answer(...)` answers r: it succeeds or raises
Answer ==
    /\ h.pc = "answer"
    /\ \E r \in Responses : h' = AfterAnswer(Ext(h, "answer", h.alert, r.kind), r)
    /\ UNCHANGED <<call, surf, disk, prev, tasks>>

\* the handler has returned or raised to the dispatcher
HandlerReturn ==
    /\ h.pc \in {"done", "raised"}
    /\ h' = IdleHandler
    /\ call' = IdleCall
    /\ UNCHANGED <<surf, disk, prev, tasks>>

Next ==
    \/ ImageStoreChange
    \/ CallUpdateMenuMessage
    \/ CallRenderMenuContent
    \/ EditMedia
    \/ EditCaptionFallback
    \/ EditCaption
    \/ EditText
    \/ SendPhoto
    \/ SendMessage
    \/ ReturnToCaller
    \/ PayCryptoCallback
    \/ CreateInvoice
    \/ RenderSubscribeMenu
    \/ RenderSubscribeMenuReturn
    \/ SendMenuWithImage
    \/ SendMenuWithImageReturn
    \/ Answer
    \/ HandlerReturn

Spec == Init /\ [][Next]_vars

(***************************************************************************)
(* Render tasks against the same existing message.  Interactions run as    *)
(* independent tasks on one event loop: a task runs from one await to the  *)
(* next without interruption, and while it is suspended at an await the    *)
(* other tasks can run.  Each task calls update_menu_message once, with    *)
(* the Message object its interaction arrived with.                        *)
(***************************************************************************)
\* the answers of the surface while tasks run concurrently
ConcurrentResponses ==
    {Ok, BadRequest(<<"Bad", "Request:", "wrong", "file", "identifier">>),
     NetworkError}

\* the interaction of task t arrives and the task calls update_menu_message
TaskCall ==
    /\ Idle
    /\ \E t \in Tasks :
          /\ tasks[t].pc = "idle"
          /\ \E text \in Texts, image \in ImageFilenames, markup \in Markups :
                tasks' = [tasks EXCEPT ![t] =
                             UpdateEntry(NewCall("update_menu_message", None,
                                                 "direct", TRUE, surf.photo,
                                                 text, image, markup),
                                         disk)]
    /\ UNCHANGED <<call, surf, disk, prev, h>>

\* the surface operation some task awaits at site answers
TaskSurfaceOp(site) ==
    /\ \E t \in Tasks :
          /\ tasks[t].pc = site
          /\ \E r \in ConcurrentResponses :
                /\ tasks' = [tasks EXCEPT ![t] =
                                Resume(tasks[t], Observed(surf, tasks[t], r))]
                /\ surf' = SurfApply(surf, OpOf(site), tasks[t].text,
                                     tasks[t].markup, r)
    /\ UNCHANGED <<call, disk, prev, h>>

TaskEditMedia == TaskSurfaceOp("edit_media")

TaskEditCaptionFallback == TaskSurfaceOp("edit_caption_fallback")

TaskEditCaption == TaskSurfaceOp("edit_caption")

TaskEditText == TaskSurfaceOp("edit_text")

NextConcurrent ==
    \/ TaskCall
    \/ TaskEditMedia
    \/ TaskEditCaptionFallback
    \/ TaskEditCaption
    \/ TaskEditText

SpecConcurrent == Init /\ [][NextConcurrent]_vars

(***************************************************************************)
(* Properties                                                              *)
(***************************************************************************)
\* the running or finished call renders in update mode against a message
InUpdate == call.pc # "idle" /\ Mode(call) = "update" /\ call.hasMessage

\* the running or finished call renders in send mode
InSend == call.pc # "idle" /\ Mode(call) = "send" /\ call.hasMessage

Finished == call.pc = "done"

Failed(o) == o.resp.kind # "ok"

Rank(op) ==
    CASE op = "edit_media" -> 1
      [] op = "edit_caption" -> 2
      [] op = "edit_text" -> 3
      [] OTHER -> 0

\* the request names an image whose file is in the image root
ImageApplies == Truthy(call.image) /\ IsFile(disk, call.image)

\* C1: in update mode the operations of one call are edit_media, then
\* edit_caption, then edit_text, never an earlier-ranked one after a later
\* one; every operation before the last one has failed, and a success ends
\* the call; edit_caption is not issued while edit_media applies and has not
\* been tried, nor edit_text while edit_caption applies and has not been
\* tried.  (Whether an operation is repeated is the subject of C15.)
C1_UpdateOrder ==
    InUpdate =>
        /\ \A i \in 1..Len(call.ops) : Rank(call.ops[i].op) \in 1..3
        /\ \A i, j \in 1..Len(call.ops) :
              i < j => Rank(call.ops[i].op) <= Rank(call.ops[j].op)
        /\ \A i \in 1..Len(call.ops) :
              ~Failed(call.ops[i]) => i = Len(call.ops) /\ Finished
        /\ \A i \in 1..Len(call.ops) :
              Rank(call.ops[i].op) > 1 /\ ImageApplies
                  => \E j \in 1..(i - 1) : call.ops[j].op = "edit_media"
        /\ \A i \in 1..Len(call.ops) :
              Rank(call.ops[i].op) > 2 /\ call.photo
                  => \E j \in 1..(i - 1) : call.ops[j].op = "edit_caption"
        /\ call.ops = <<>> /\ ~Finished =>
              call.pc = IF ImageApplies THEN "edit_media"
                        ELSE IF call.photo THEN "edit_caption" ELSE "edit_text"

\* a call went through all three stages and ended with a successful edit_text
C1_Witness ==
    /\ InUpdate /\ Finished
    /\ \E i, j, k \in 1..Len(call.ops) :
          /\ i < j /\ j < k /\ k = Len(call.ops)
          /\ call.ops[i].op = "edit_media"
          /\ call.ops[j].op = "edit_caption"
          /\ call.ops[k].op = "edit_text" /\ ~Failed(call.ops[k])

\* the call was made without a target message
NoTarget ==
    \/ ~call.hasMessage
    \/ call.fn = "render_menu_content" /\ call.event \notin {"CallbackQuery", "Message"}

\* C2: a render call never raises: whatever the surface answers, the call is
\* suspended at an operation or has returned a boolean; without a target
\* message it returns false and issues no operation.
C2_NeverRaises ==
    call.pc # "idle" =>
        /\ call.pc # "raised"
        /\ call.pc \in {"edit_media", "edit_caption_fallback", "edit_caption",
                        "edit_text", "send_photo", "send_message", "done"}
        /\ Finished => call.result \in BOOLEAN
        /\ NoTarget => Finished /\ call.result = FALSE /\ call.ops = <<>>

\* every operation of a finished call failed, with both kinds of failure
C2_Witness ==
    /\ Finished
    /\ Len(call.ops) >= 2
    /\ \A i \in 1..Len(call.ops) : Failed(call.ops[i])
    /\ \E i \in 1..Len(call.ops) : call.ops[i].resp.kind = "TelegramNetworkError"
    /\ \E i \in 1..Len(call.ops) : call.ops[i].resp.kind = "TelegramBadRequest"

\* the reason tells that the edit left the content unchanged
SaysNotModified(reason) == Contains(Lower(reason), <<"not", "modified">>)

\* the surface rejected operation o because it changes nothing
BenignUnchanged(o) ==
    /\ o.resp.kind = "TelegramBadRequest"
    /\ o.resp.same
    /\ SaysNotModified(o.resp.reason)

\* C3: the outcome is true when the message presented at the end has an
\* image background: fresh media (edit_media, send_photo), a caption edit, or
\* the existing photo preserved after a benign "unchanged" caption
\* rejection; it is false when the last operation was a successful edit_text
\* or a send_message, and when nothing was delivered to a message without a
\* photo.
C3_OutcomeIsImageBackground ==
    (call.pc # "idle" /\ ~NoTarget /\ Finished) =>
        LET last == call.ops[Len(call.ops)]
        IN  /\ (~Failed(last) /\ last.op \in {"edit_media", "edit_caption", "send_photo"})
                  => call.result = TRUE
            /\ (InUpdate /\ surf.photo
                   /\ \E i \in 1..Len(call.ops) :
                         call.ops[i].op = "edit_caption" /\ BenignUnchanged(call.ops[i]))
                  => call.result = TRUE
            /\ (~Failed(last) /\ last.op = "edit_text") => call.result = FALSE
            /\ last.op = "send_message" => call.result = FALSE
            /\ (InUpdate /\ ~surf.photo /\ \A i \in 1..Len(call.ops) : Failed(call.ops[i]))
                  => call.result = FALSE

\* the same request without an image name
WithoutImage(c) ==
    NewCall(c.fn, c.event, c.caller, c.hasMessage, c.photo, c.text, None, c.markup)

\* the answers the call has received, in order
Answers(c) == [i \in 1..Len(c.ops) |-> c.ops[i].resp]

\* the request names an image whose file does not exist
ImageMissing == Truthy(call.image) /\ ~IsFile(disk, call.image)

\* C4: a request whose image name points to a non-existent file is rendered
\* as the same request without an image name: given the same answers of the
\* surface, the same operations are issued with the same arguments, neither
\* edit_media nor send_photo among them, and the same outcome is returned.
C4_MissingFileAsNoImage ==
    (call.pc # "idle" /\ ImageMissing) =>
        LET twin == Replay(Enter(WithoutImage(call), disk), Answers(call))
        IN  /\ twin.pc = call.pc
            /\ twin.ops = call.ops
            /\ twin.result = call.result
            /\ \A i \in 1..Len(call.ops) : call.ops[i].op \notin {"edit_media", "send_photo"}

\* an update against a photo message with a missing image file fell through
\* caption and text
C4_Witness ==
    /\ InUpdate /\ Finished /\ ImageMissing /\ call.photo
    /\ Len(call.ops) = 2
    /\ call.ops[1].op = "edit_caption"
    /\ call.ops[2].op = "edit_text"

\* C5: in update mode, when the message has a photo and no image name is
\* given, the first operation is edit_caption, and when it succeeds the call
\* returns true without another operation.
C5_CaptionPathFirst ==
    (InUpdate /\ call.photo /\ ~Truthy(call.image)) =>
        /\ call.ops = <<>> => call.pc = "edit_caption"
        /\ call.ops # <<>> => call.ops[1].op = "edit_caption"
        /\ (call.ops # <<>> /\ ~Failed(call.ops[1])) =>
              Finished /\ call.result = TRUE /\ Len(call.ops) = 1

\* such a call whose caption edit succeeded
C5_Witness ==
    /\ InUpdate /\ call.photo /\ ~Truthy(call.image) /\ Finished
    /\ call.ops # <<>>
    /\ call.ops[1].op = "edit_caption" /\ ~Failed(call.ops[1])
    /\ call.result = TRUE

\* operation i of the call is an edit_text rejected with a reason in which
\* needle occurs, letter case aside
TextRejectedWith(i, needle) ==
    /\ call.ops[i].op = "edit_text"
    /\ call.ops[i].resp.kind = "TelegramBadRequest"
    /\ Contains(Lower(call.ops[i].resp.reason), needle)

\* the rejection of edit_text is not logged as an error, ends the call with
\* false, and edit_text is not issued again
TextRejectionIsBenign(i) ==
    /\ \A k \in 1..Len(call.logs) :
          call.logs[k].at = "edit_text" => call.logs[k].level # "error"
    /\ Finished /\ call.result = FALSE
    /\ i = Len(call.ops)
    /\ \A j \in 1..Len(call.ops) : call.ops[j].op = "edit_text" => j = i

\* C6 as stated: in update mode an edit_text rejected with a reason that
\* contains "not modified" in any letter case logs nothing at error
\* severity, returns false and is not retried.
C6_NotModifiedAnyReason ==
    InUpdate =>
        \A i \in 1..Len(call.ops) :
            TextRejectedWith(i, <<"not", "modified">>) => TextRejectionIsBenign(i)

\* C6 as amended: in update mode an edit_text rejected with a reason that
\* contains "message is not modified" in any letter case logs nothing at
\* error severity, returns false and is not retried.
C6_MessageIsNotModified ==
    InUpdate =>
        \A i \in 1..Len(call.ops) :
            TextRejectedWith(i, <<"message", "is", "not", "modified">>)
                => TextRejectionIsBenign(i)

\* an edit_text was rejected with "Message is not modified" (capital M) and
\* logged at debug level
C6_Witness ==
    /\ InUpdate /\ Finished
    /\ \E i \in 1..Len(call.ops) :
          /\ TextRejectedWith(i, <<"message", "is", "not", "modified">>)
          /\ ~Contains(call.ops[i].resp.reason, <<"message", "is", "not", "modified">>)
    /\ \E k \in 1..Len(call.logs) :
          call.logs[k].at = "edit_text" /\ call.logs[k].level = "debug"

CountOp(op) == Cardinality({i \in 1..Len(call.ops) : call.ops[i].op = op})

\* C7: in send mode, when the image file exists send_photo is the first
\* operation; when it succeeds the outcome is true and send_message is not
\* called; when it fails, for any reason, send_message is called once with
\* the text and controls of the request and the outcome is false whether
\* send_message succeeds or not; send_photo is called at most once.
C7_SendMode ==
    InSend =>
        /\ CountOp("send_photo") <= 1
        /\ CountOp("send_message") <= 1
        /\ \A i \in 1..Len(call.ops) : call.ops[i].op \in {"send_photo", "send_message"}
        /\ (ImageApplies /\ call.ops = <<>>) => call.pc = "send_photo"
        /\ (ImageApplies /\ call.ops # <<>>) => call.ops[1].op = "send_photo"
        /\ \A i \in 1..Len(call.ops) :
              (call.ops[i].op = "send_photo" /\ ~Failed(call.ops[i])) =>
                  /\ Finished /\ call.result = TRUE
                  /\ CountOp("send_message") = 0
        /\ \A i \in 1..Len(call.ops) :
              (call.ops[i].op = "send_photo" /\ Failed(call.ops[i])) =>
                  \/ call.pc = "send_message" /\ Len(call.ops) = i
                  \/ /\ Len(call.ops) = i + 1
                     /\ call.ops[i + 1].op = "send_message"
                     /\ call.ops[i + 1].text = call.text
                     /\ call.ops[i + 1].markup = call.markup
                     /\ call.ops[i + 1].text = call.ops[i].text
                     /\ call.ops[i + 1].markup = call.ops[i].markup
                     /\ Finished /\ call.result = FALSE

\* send_photo failed, the one send_message succeeded, and the outcome is false
C7_Witness ==
    /\ InSend /\ Finished /\ ImageApplies
    /\ Len(call.ops) = 2
    /\ call.ops[1].op = "send_photo" /\ Failed(call.ops[1])
    /\ call.ops[2].op = "send_message" /\ ~Failed(call.ops[2])
    /\ call.result = FALSE

\* the running call repeats the request of the call that returned just
\* before it, against the same message
SecondCall ==
    /\ prev.valid
    /\ InUpdate /\ call.caller = "direct"
    /\ call.text = prev.text /\ call.image = prev.image /\ call.markup = prev.markup

\* the surface has rejected as "not modified" every edit of the call that
\* left the content unchanged
SurfaceRejectsUnchanged ==
    \A i \in 1..Len(call.ops) : call.ops[i].resp.same => BenignUnchanged(call.ops[i])

\* C8: when a request is rendered twice in a row against the same message
\* and the surface rejects unchanged edits, the first call returns true when
\* it goes through the media or caption path; the second call does not
\* raise, and as a benign no-op it returns true via the caption path and
\* false via the text path.
C8_Idempotent ==
    SecondCall =>
        /\ prev.path \in {"edit_media", "edit_caption"} => prev.result = TRUE
        /\ call.pc # "raised"
        /\ (Finished /\ SurfaceRejectsUnchanged
               /\ \E i \in 1..Len(call.ops) :
                     call.ops[i].op = "edit_caption" /\ BenignUnchanged(call.ops[i]))
              => call.result = TRUE
        /\ (Finished /\ SurfaceRejectsUnchanged
               /\ CountOp("edit_caption") = 0
               /\ \E i \in 1..Len(call.ops) :
                     call.ops[i].op = "edit_text" /\ BenignUnchanged(call.ops[i]))
              => call.result = FALSE

HandlerRunning == h.pc # "idle"

\* the handler has caused no external operation but acknowledgments
OnlyAnswers == \A i \in 1..Len(h.ext) : h.ext[i].op = "answer"

\* C9: when the gateway client is absent or not configured, create_invoice
\* is never invoked and no render operation is issued; the handler only
\* acknowledges, once, and stops; past the test of step 1 (localization and
\* message present) the acknowledgment carries the alert
\* "payment_service_unavailable_alert".
C9_GatewayUnavailable ==
    (HandlerRunning /\ h.service # "configured") =>
        /\ OnlyAnswers
        /\ call.pc = "idle"
        /\ h.pc \in {"answer", "done"}
        /\ h.pc = "answer" => h.ext = <<>>
        /\ h.pc = "done" => Len(h.ext) = 1
        /\ (h.i18n /\ h.hasMessage) =>
              /\ h.alert = "payment_service_unavailable_alert"
              /\ \A i \in 1..Len(h.ext) :
                    h.ext[i].arg = "payment_service_unavailable_alert"

\* the handler has returned after answering a request for an unconfigured
\* gateway with the alert
C9_Witness ==
    /\ h.pc = "done"
    /\ h.service = "unconfigured"
    /\ h.i18n /\ h.hasMessage
    /\ Len(h.ext) = 1
    /\ h.ext[1].op = "answer"
    /\ h.ext[1].arg = "payment_service_unavailable_alert"

\* the fields of callback.data after the "pay_crypto:" tag
Fields(data) == Split(SplitOnce(data)[2])

\* the payload does not decode into a finite quantity and a finite price
Malformed(data) ==
    LET p == ParsePayload(data)
    IN  \/ p.exc # None
        \/ p.months.kind # "finite"
        \/ p.price_amount.kind # "finite"

\* C10: past steps 1 and 2, a payload that does not decode into a usable
\* numeric quantity and price ends the interaction without a crash: the
\* handler does not raise, answers with the alert "error_try_again", and
\* causes neither create_invoice nor a render operation; a well-formed
\* payload without a third field has sale mode "subscription", one with
\* third field "traffic" has sale mode traffic.
C10_MalformedIsTerminal ==
    (HandlerRunning /\ h.i18n /\ h.hasMessage /\ h.service = "configured") =>
        /\ Malformed(h.data) =>
              /\ h.pc \in {"answer", "done"}
              /\ h.alert = "error_try_again"
              /\ OnlyAnswers
              /\ call.pc = "idle"
        /\ (~Malformed(h.data) /\ Len(Fields(h.data)) = 2) =>
              h.parsed.sale_mode = <<"subscription">>
        /\ (~Malformed(h.data) /\ Len(Fields(h.data)) > 2
               /\ Fields(h.data)[3] = <<"traffic">>) =>
              h.parsed.sale_mode = <<"traffic">>

\* the operations through which the handler reaches the menu renderer
RenderOps ==
    {"render_subscribe_menu", "_send_menu_with_image", "edit_media",
     "edit_caption", "edit_text", "send_photo", "send_message"}

\* create_invoice has returned without a URL
NoUrl ==
    \E i \in 1..Len(h.ext) :
        h.ext[i].op = "create_invoice" /\ h.ext[i].res \in {None, ""}

\* C11: when create_invoice returns no URL the handler acknowledges with the
\* alert "error_payment_gateway" and never invokes the menu renderer,
\* neither the update-mode render nor the send-mode fallback.
C11_NoUrlNoRender ==
    (HandlerRunning /\ NoUrl) =>
        /\ \A i \in 1..Len(h.ext) : h.ext[i].op \notin RenderOps
        /\ call.pc = "idle"
        /\ h.pc \in {"answer", "done"}
        /\ h.alert = "error_payment_gateway"
        /\ h.pc = "done" =>
              /\ Len(h.ext) = 2
              /\ h.ext[2].op = "answer"
              /\ h.ext[2].arg = "error_payment_gateway"

\* the handler has returned after create_invoice gave no URL
C11_Witness ==
    /\ h.pc = "done"
    /\ NoUrl
    /\ h.ext[Len(h.ext)].op = "answer"
    /\ h.ext[Len(h.ext)].arg = "error_payment_gateway"

\* the entries of the handler's journal for operation op that ended as res
ExtIdx(op, res) ==
    {i \in 1..Len(h.ext) : h.ext[i].op = op /\ h.ext[i].res = res}

UpdateRenderCalls == ExtIdx("render_subscribe_menu", "call")

UpdateRenderRaised == ExtIdx("render_subscribe_menu", "raise")

UpdateRenderReturned ==
    ExtIdx("render_subscribe_menu", "True") \cup ExtIdx("render_subscribe_menu", "False")

FallbackCalls == ExtIdx("_send_menu_with_image", "call")

FallbackRaised == ExtIdx("_send_menu_with_image", "raise")

\* C12: with a URL, when the update-mode render raises the send-mode
\* fallback is attempted exactly once, with the same text and equivalent
\* controls; when the fallback raises too the interaction is acknowledged
\* with no alert; the fallback is attempted only after the update-mode
\* render raised, never after it returned (true or false).
C12_FallbackOnce ==
    HandlerRunning =>
        /\ Cardinality(UpdateRenderCalls) <= 1
        /\ Cardinality(FallbackCalls) <= 1
        /\ \A f \in FallbackCalls :
              \E u \in UpdateRenderCalls, r \in UpdateRenderRaised :
                  /\ u < r /\ r < f
                  /\ h.ext[f].arg = h.ext[u].arg
                  /\ h.ext[f].markup = h.ext[u].markup
        /\ UpdateRenderReturned # {} =>
              /\ FallbackCalls = {}
              /\ UpdateRenderRaised = {}
              /\ h.pc \in {"answer", "done"}
        /\ UpdateRenderRaised # {} =>
              \/ h.pc = "send_menu_with_image" /\ FallbackCalls = {}
              \/ Cardinality(FallbackCalls) = 1
        /\ FallbackRaised # {} =>
              /\ h.pc \in {"answer", "done"}
              /\ h.alert = None
              /\ h.pc = "done" =>
                    /\ h.ext[Len(h.ext)].op = "answer"
                    /\ h.ext[Len(h.ext)].arg = None

\* the update-mode render raised after a surface operation, the fallback was
\* attempted and raised too, and the interaction was acknowledged
C12_Witness ==
    /\ h.pc = "done"
    /\ UpdateRenderRaised # {}
    /\ \E i \in 1..Len(h.ext) : h.ext[i].op = "edit_text"
    /\ Cardinality(FallbackCalls) = 1
    /\ FallbackRaised # {}
    /\ h.ext[Len(h.ext)].op = "answer"
    /\ h.ext[Len(h.ext)].arg = None


\* create_invoice has raised instead of returning
InvoiceRaised == ExtIdx("create_invoice", "raise") # {}

\* C13: no failure of the gateway or of the chat surface leaves the handler
\* as an exception: whether create_invoice raises or returns no URL, the
\* render calls fail, or the acknowledgment fails, the handler returns
\* normally (stated for payloads that decode into finite numbers).
C13_HandlerReturnsNormally ==
    (HandlerRunning /\ ~Malformed(h.data)) => h.pc # "raised"

\* create_invoice has returned a URL
GotUrl == ExtIdx("create_invoice", "url") # {}

\* the alerts an acknowledgment can carry, and the step that gives each
AlertStep(alert) ==
    CASE alert = "error_occurred_try_again" -> ~h.i18n \/ ~h.hasMessage
      [] alert = "payment_service_unavailable_alert" -> h.service # "configured"
      [] alert = "error_try_again" -> ParsePayload(h.data).exc # None
      [] alert = "error_payment_gateway" -> NoUrl
      [] OTHER -> FALSE

\* C14: an acknowledgment carries an alert only at steps 1-3 and 7 (missing
\* localization or message, gateway unavailable, malformed payload, no URL);
\* once create_invoice has returned a URL the acknowledgment carries no
\* alert, whatever the render calls did.
C14_AlertOnlyWithoutUrl ==
    HandlerRunning =>
        /\ h.alert # None => AlertStep(h.alert) /\ ~GotUrl
        /\ \A i \in 1..Len(h.ext) :
              (h.ext[i].op = "answer" /\ h.ext[i].arg # None) =>
                  AlertStep(h.ext[i].arg) /\ ~GotUrl
        /\ (GotUrl /\ h.pc \in {"answer", "done"}) => h.alert = None

\* a URL was returned, both render calls raised, and the handler
\* acknowledged without an alert
C14_Witness ==
    /\ h.pc = "done"
    /\ GotUrl
    /\ UpdateRenderRaised # {}
    /\ FallbackRaised # {}
    /\ h.alert = None
    /\ \E i \in 1..Len(h.ext) : h.ext[i].op = "answer" /\ h.ext[i].arg = None

SurfaceOps == {"edit_media", "edit_caption", "edit_text", "send_photo", "send_message"}

\* C15: within one render call no operation is retried: edit_media,
\* edit_caption, edit_text, send_photo and send_message are each invoked at
\* most once, whatever the request and the answers of the surface; in
\* particular edit_caption is not attempted again after it was rejected as
\* the fallback from a rejected edit_media.
C15_NoRetry ==
    call.pc # "idle" => \A op \in SurfaceOps : CountOp(op) <= 1

\* the first operation of the call was an edit_media that failed
MediaFailed ==
    /\ InUpdate
    /\ call.ops # <<>>
    /\ call.ops[1].op = "edit_media"
    /\ Failed(call.ops[1])

MediaRejected == MediaFailed /\ call.ops[1].resp.kind = "TelegramBadRequest"

\* the await site of the operation issued after the first one
SiteAfterFirst == IF Len(call.ops) > 1 THEN call.ops[2].site ELSE call.pc

\* C16 as claimed: after edit_media fails, a rejection against a message
\* with a photo is followed by edit_caption; any other failure (an error
\* that is not a rejection, or a rejection without a photo) is followed by
\* edit_text, and edit_caption is not attempted.
C16_OtherFailureToText ==
    MediaFailed =>
        IF MediaRejected /\ call.photo
        THEN OpOf(SiteAfterFirst) = "edit_caption"
        ELSE /\ OpOf(SiteAfterFirst) = "edit_text"
             /\ CountOp("edit_caption") = 0

\* C16, amended: after edit_media fails, the next operation is edit_caption
\* whenever the message carries a photo: the fallback of lines 53-59 after a
\* rejection, the caption stage of lines 84-90 after any other error; when
\* the message carries no photo the next operation is edit_text and
\* edit_caption is not attempted, whatever the failure was.
C16_NextByPhoto ==
    MediaFailed =>
        IF call.photo
        THEN SiteAfterFirst = IF MediaRejected THEN "edit_caption_fallback"
                                               ELSE "edit_caption"
        ELSE /\ SiteAfterFirst = "edit_text"
             /\ CountOp("edit_caption") = 0

\* edit_media failed with an error that is not a rejection, the message
\* carries a photo, and edit_caption was issued next
C16_Witness ==
    /\ MediaFailed /\ ~MediaRejected /\ call.photo
    /\ Len(call.ops) > 1
    /\ call.ops[2].op = "edit_caption"

\* operation i of the call is an edit_caption the surface rejected
CaptionRejected(i) ==
    /\ call.ops[i].op = "edit_caption"
    /\ call.ops[i].resp.kind = "TelegramBadRequest"

\* the log lines written when the operation awaited at site answered
LogsAt(site) == {k \in 1..Len(call.logs) : call.logs[k].at = site}

\* the call went on after operation i instead of ending with it
FellThrough(i) ==
    /\ call.pc # "raised"
    /\ Len(call.ops) = i => call.pc \in {"edit_caption", "edit_text"}

\* C17: in update mode every edit_caption rejection whose reason says "not
\* modified" is a benign no-op, logged below warning severity, after which
\* processing falls through to the next stage, both when edit_caption is
\* the fallback from a rejected edit_media and when it is used on its own;
\* any other edit_caption rejection is logged as a warning and falls
\* through.
C17_CaptionRejection ==
    InUpdate =>
        \A i \in 1..Len(call.ops) :
            CaptionRejected(i) =>
                /\ FellThrough(i)
                /\ LogsAt(call.ops[i].site) # {}
                /\ \A k \in LogsAt(call.ops[i].site) :
                      IF SaysNotModified(call.ops[i].resp.reason)
                      THEN call.logs[k].level \notin {"warning", "error"}
                      ELSE call.logs[k].level = "warning"

\* in the update-mode call c, operation i is an edit_text chosen and issued
\* while the message carried a photo, with no edit_caption before it
TextSkipsCaption(c, i) ==
    /\ i > 1
    /\ c.ops[i].op = "edit_text"
    /\ c.ops[i - 1].resp.photo
    /\ c.ops[i].resp.photo
    /\ \A j \in 1..(i - 1) : c.ops[j].op # "edit_caption"

\* C18: when render tasks run concurrently against the same message, each
\* task chooses between the caption edit and the text edit on whether the
\* message has a photo at that moment: no task issues edit_text, skipping
\* edit_caption, against a message that carries a photo because the
\* edit_media of another task succeeded after the task's interaction was
\* received.
C18_ChoiceOnCurrentPhoto ==
    \A t \in Tasks :
        \A i \in 1..Len(tasks[t].ops) : ~TextSkipsCaption(tasks[t], i)


\* the acknowledgments the handler has attempted
AnswerCalls == {i \in 1..Len(h.ext) : h.ext[i].op = "answer"}

\* C19: every handling of a payment interaction attempts to acknowledge the
\* interaction exactly once, and the acknowledgment is the handler's last
\* external operation: callback.answer is called once on every path, never
\* twice, after create_invoice and after all render attempts (a handling
\* that has ended has acknowledged).
C19_AcknowledgedOnce ==
    HandlerRunning =>
        /\ Cardinality(AnswerCalls) <= 1
        /\ \A i \in AnswerCalls : i = Len(h.ext)
        /\ h.pc \in {"done", "raised"} => Cardinality(AnswerCalls) = 1
=============================================================================
